---- MODULE Spec2Model ----
(***************************************************************************)
(* Model of scripts/benchmark.py: the WER scorer (compute_wer and its      *)
(* nested normalize) and the benchmark sweep of main().                    *)
(*                                                                         *)
(* A Python str is a sequence of units.  A unit is a one-character string, *)
(* or one whole occurrence of a protocol marker ("BENCHMARK_RESULT:" or    *)
(* "BENCHMARK_LATENCY_MS:"), which str.startswith and str.replace treat as *)
(* a block.  A Python float is a record: either +inf or a reduced          *)
(* fraction num/den (rounding of the binary representation is not          *)
(* modelled).                                                              *)
(***************************************************************************)
EXTENDS Integers, Sequences, FiniteSets, TLC

VARIABLES
    reference, hypothesis, ref_words, hyp_words, errors, wer_value,
    transcripts, audio_files, idx, pc, result, output, line_no,
    actual_text, latency_ms, total_latency_ms, total_wer, processed,
    printed, summary, invocations, launched

vars == <<reference, hypothesis, ref_words, hyp_words, errors, wer_value,
          transcripts, audio_files, idx, pc, result, output, line_no,
          actual_text, latency_ms, total_latency_ms, total_wer, processed,
          printed, summary, invocations, launched>>

scorerVars == <<reference, hypothesis, ref_words, hyp_words, errors, wer_value>>
sweepVars == <<transcripts, audio_files, idx, total_latency_ms, total_wer,
               processed, printed, summary, invocations, launched>>

(***************************************************************************)
(* Bounds of the model.                                                    *)
(***************************************************************************)
MaxTextLen == 3
MaxWordTextLen == 5
MaxEntries == 2
MaxOutputLines == 3

SeqsUpTo(S, n) == UNION {[1..k -> S] : k \in 0..n}

(***************************************************************************)
(* Characters.                                                             *)
(***************************************************************************)
RESULT_MARKER == "BENCHMARK_RESULT:"
LATENCY_MARKER == "BENCHMARK_LATENCY_MS:"

Letters == {"a", "b", "B", "x"}
Digits == {"1"}
Whitespace == {" "}

\* str.lower() on one unit.
LowerChar(c) ==
    CASE c = "B" -> "b"
      [] c = RESULT_MARKER -> "benchmark_result:"
      [] c = LATENCY_MARKER -> "benchmark_latency_ms:"
      [] OTHER -> c

\* text.lower()
Lower(text) == [k \in 1..Len(text) |-> LowerChar(text[k])]

\* What re.sub(r'[^\w\s]', '', .) leaves of one unit: \w is letters, digits
\* and the underscore; of a marker only the trailing colon is removed.
SubChar(c) ==
    CASE c \in Letters \cup Digits \cup {"_"} \cup Whitespace -> <<c>>
      [] c = RESULT_MARKER -> <<"BENCHMARK_RESULT">>
      [] c = LATENCY_MARKER -> <<"BENCHMARK_LATENCY_MS">>
      [] c = "benchmark_result:" -> <<"benchmark_result">>
      [] c = "benchmark_latency_ms:" -> <<"benchmark_latency_ms">>
      [] OTHER -> << >>

RECURSIVE ReSub(_)
\* re.sub(r'[^\w\s]', '', text)
ReSub(text) ==
    IF text = << >> THEN << >>
    ELSE SubChar(Head(text)) \o ReSub(Tail(text))

RECURSIVE SplitFrom(_, _)
\* str.split() continued: cur is the word being read (empty between words).
SplitFrom(text, cur) ==
    IF text = << >> THEN (IF cur = << >> THEN << >> ELSE <<cur>>)
    ELSE IF Head(text) \in Whitespace
         THEN (IF cur = << >> THEN SplitFrom(Tail(text), << >>)
               ELSE <<cur>> \o SplitFrom(Tail(text), << >>))
         ELSE SplitFrom(Tail(text), Append(cur, Head(text)))

\* str.split(): the words between whitespace runs, none empty.
Split(text) == SplitFrom(text, << >>)

\* compute_wer.normalize
normalize(text) == Split(ReSub(Lower(text)))

(***************************************************************************)
(* Floats.                                                                 *)
(***************************************************************************)
RECURSIVE GCD(_, _)
GCD(a, b) == IF b = 0 THEN a ELSE GCD(b, a % b)

\* The float n/d, d > 0, n >= 0.
Rat(n, d) ==
    LET g == GCD(n, d) IN [inf |-> FALSE, num |-> n \div g, den |-> d \div g]

\* float('inf')
Inf == [inf |-> TRUE, num |-> 0, den |-> 1]

\* 0.0
Zero == Rat(0, 1)

\* float + float
FAdd(x, y) ==
    IF x.inf \/ y.inf THEN Inf
    ELSE Rat(x.num * y.den + y.num * x.den, x.den * y.den)

\* float / int, for n > 0
FDiv(x, n) == IF x.inf THEN Inf ELSE Rat(x.num, x.den * n)

(***************************************************************************)
(* compute_wer                                                             *)
(***************************************************************************)
Min3(a, b, c) ==
    IF a <= b /\ a <= c THEN a ELSE IF b <= c THEN b ELSE c

costAlwaysOne(a, b) == 1

\* The substitution cost of two words.
cost(a, b) == IF a = b THEN 0 ELSE 1

\* The last cell of the distance matrix d.
EditDistance(rw, hw) ==
    LET d[i \in 0..Len(rw), j \in 0..Len(hw)] ==
            IF j = 0 THEN i
            ELSE IF i = 0 THEN j
            ELSE Min3(d[i-1, j] + 1,
                      d[i, j-1] + 1,
                      d[i-1, j-1] + cost(rw[i], hw[j]))
    IN d[Len(rw), Len(hw)]

WerOf(rw, hw) ==
    IF Len(rw) = 0
    THEN (IF Len(hw) > 0 THEN Inf ELSE Zero)
    ELSE Rat(EditDistance(rw, hw), Len(rw))

compute_wer(ref, hyp) == WerOf(normalize(ref), normalize(hyp))

(***************************************************************************)
(* Parsing of the transcriber's captured output (main)                     *)
(***************************************************************************)
RECURSIVE LStrip(_)
LStrip(text) ==
    IF text /= << >> /\ Head(text) \in Whitespace THEN LStrip(Tail(text))
    ELSE text

RECURSIVE RStrip(_)
RStrip(text) ==
    IF text /= << >> /\ text[Len(text)] \in Whitespace
    THEN RStrip(SubSeq(text, 1, Len(text) - 1))
    ELSE text

\* str.strip()
Strip(text) == RStrip(LStrip(text))

\* line.startswith(marker)
StartsWith(line, marker) == line /= << >> /\ Head(line) = marker

\* line.replace(marker, ""): every occurrence of the marker is removed.
Replace(line, marker) == SelectSeq(line, LAMBDA c : c /= marker)

RECURSIVE DigitsValue(_, _)
DigitsValue(text, acc) ==
    IF text = << >> THEN acc
    ELSE IF Head(text) = "_" THEN DigitsValue(Tail(text), acc)
    ELSE DigitsValue(Tail(text), 10 * acc + 1)

\* int(text): surrounding whitespace is ignored; the rest must be decimal
\* digits, single underscores allowed between digits; anything else raises
\* ValueError.
int(text) ==
    LET t == Strip(text)
        wellFormed ==
            /\ t /= << >>
            /\ \A k \in 1..Len(t) : t[k] \in Digits \cup {"_"}
            /\ t[1] \in Digits
            /\ t[Len(t)] \in Digits
            /\ \A k \in 1..(Len(t) - 1) : ~(t[k] = "_" /\ t[k+1] = "_")
    IN IF wellFormed
       THEN [raised |-> FALSE, value |-> DigitsValue(t, 0)]
       ELSE [raised |-> TRUE, value |-> 0]

\* The values of actual_text and latency_ms before the scan.
ScanStart == [actual_text |-> << >>, latency_ms |-> 0, raised |-> FALSE]

\* One iteration of the scan over the lines of the output.
ScanLine(st, line) ==
    IF StartsWith(line, RESULT_MARKER)
    THEN [st EXCEPT !.actual_text = Strip(Replace(line, RESULT_MARKER))]
    ELSE IF StartsWith(line, LATENCY_MARKER)
    THEN LET n == int(Strip(Replace(line, LATENCY_MARKER)))
         IN IF n.raised THEN [st EXCEPT !.raised = TRUE]
            ELSE [st EXCEPT !.latency_ms = n.value]
    ELSE st

RECURSIVE ScanFrom(_, _, _)
\* The scan from line k on; it ends where int raises.
ScanFrom(lines, k, st) ==
    IF k > Len(lines) \/ st.raised THEN st
    ELSE ScanFrom(lines, k + 1, ScanLine(st, lines[k]))

\* The whole scan of the output.
ScanOutput(lines) == ScanFrom(lines, 1, ScanStart)

CapturedStderrFirst(out, err) == err \o out

\* result.stdout + "\n" + result.stderr, as the list of its lines: a stream
\* is the non-empty list of the lines between its newlines.
CapturedOutput(out, err) == out \o err

(***************************************************************************)
(* Inputs.                                                                 *)
(***************************************************************************)
\* The characters of the scorer's inputs: a lowercase and an uppercase
\* letter, the underscore, a punctuation mark and whitespace.
TextChars == {"a", "B", "_", ",", " "}

Texts == SeqsUpTo(TextChars, MaxTextLen)

\* Longer texts of letters and whitespace only, for more words.
WordChars == {"a", "B", " "}

WordTexts == SeqsUpTo(WordChars, MaxWordTextLen)

\* The pairs (reference, hypothesis) compute_wer is called with.
ScorerInputs == (Texts \X Texts) \cup (WordTexts \X WordTexts)

\* Lines a transcriber may write.
EmptyLine == << >>
OtherLine == <<"x">>
LateMarkerLine == <<" ", RESULT_MARKER, "a">>
ResultLine == <<RESULT_MARKER, " ", "a">>
ResultLineB == <<RESULT_MARKER, "B", " ">>
ResultBareLine == <<RESULT_MARKER>>
ResultTwiceLine == <<RESULT_MARKER, "a", RESULT_MARKER, "b">>
LatencyLine == <<LATENCY_MARKER, " ", "1">>
LatencyLine11 == <<LATENCY_MARKER, "1", "1">>
LatencyBadLine == <<LATENCY_MARKER, "x">>
LatencyTwiceLine == <<LATENCY_MARKER, "1", LATENCY_MARKER, "1">>

OutputLines ==
    {EmptyLine, OtherLine, LateMarkerLine, ResultLine, ResultLineB,
     ResultBareLine, ResultTwiceLine, LatencyLine, LatencyLine11,
     LatencyBadLine, LatencyTwiceLine}

\* A stream is never without a line: the empty stream is one empty line.
Streams(n) == SeqsUpTo(OutputLines, n) \ {<< >>}

\* What subprocess.run may return in the scan's specification.
ScanResults ==
    {r \in [stdout : Streams(MaxOutputLines - 1),
            stderr : Streams(MaxOutputLines - 1),
            returncode : {0}] :
        Len(r.stdout) + Len(r.stderr) <= MaxOutputLines}

\* Expected transcripts of the sweep's mapping.
ExpectedTexts == {<< >>, <<"a">>, <<"a", " ", "B">>}

\* What subprocess.run may return in the sweep.
SweepResults ==
    [stdout : {<<EmptyLine>>, <<ResultLine>>, <<ResultLine, LatencyLine>>,
               <<ResultLine, LatencyBadLine>>},
     stderr : {<<EmptyLine>>, <<OtherLine>>, <<LatencyLine11>>},
     returncode : {0, 1}]

NoResult == [stdout |-> << >>, stderr |-> << >>, returncode |-> 0]
NoSummary == [kind |-> "", files |-> 0, avg_latency |-> Zero, avg_wer |-> Zero]

\* The variables of the scorer, where it is not running.
ScorerIdle ==
    /\ reference = << >>
    /\ hypothesis = << >>
    /\ ref_words = << >>
    /\ hyp_words = << >>
    /\ errors = 0
    /\ wer_value = Zero

\* The variables of the sweep, where it is not running.
SweepIdle ==
    /\ transcripts = << >>
    /\ audio_files = {}
    /\ idx = 1
    /\ total_latency_ms = 0
    /\ total_wer = Zero
    /\ processed = 0
    /\ printed = << >>
    /\ summary = NoSummary
    /\ invocations = << >>
    /\ launched = {}

\* The variables of the scan, before any output is captured.
ScanIdle ==
    /\ result = NoResult
    /\ output = << >>
    /\ line_no = 0
    /\ actual_text = << >>
    /\ latency_ms = 0

(***************************************************************************)
(* The scorer: one call of compute_wer(reference, hypothesis).             *)
(***************************************************************************)
InitWer ==
    /\ \E input \in ScorerInputs :
          /\ reference = input[1]
          /\ hypothesis = input[2]
    /\ ref_words = << >>
    /\ hyp_words = << >>
    /\ errors = 0
    /\ wer_value = Zero
    /\ pc = "call"
    /\ SweepIdle
    /\ ScanIdle

CallComputeWer ==
    /\ pc = "call"
    /\ ref_words' = normalize(reference)
    /\ hyp_words' = normalize(hypothesis)
    /\ errors' = EditDistance(ref_words', hyp_words')
    /\ wer_value' = compute_wer(reference, hypothesis)
    /\ pc' = "returned"
    /\ UNCHANGED <<reference, hypothesis, result, output, line_no,
                   actual_text, latency_ms>>
    /\ UNCHANGED sweepVars

NextWer == CallComputeWer

SpecWer == InitWer /\ [][NextWer]_vars

(***************************************************************************)
(* The scan: the lines of one captured output, one at a time.              *)
(***************************************************************************)
InitScan ==
    /\ result \in ScanResults
    /\ output = << >>
    /\ line_no = 0
    /\ actual_text = << >>
    /\ latency_ms = 0
    /\ pc = "captured"
    /\ ScorerIdle
    /\ SweepIdle

\* output = result.stdout + "\n" + result.stderr; actual_text = "";
\* latency_ms = 0
JoinOutput ==
    /\ pc = "captured"
    /\ output' = CapturedOutput(result.stdout, result.stderr)
    /\ actual_text' = ScanStart.actual_text
    /\ latency_ms' = ScanStart.latency_ms
    /\ line_no' = 1
    /\ pc' = "scan"
    /\ UNCHANGED result
    /\ UNCHANGED scorerVars
    /\ UNCHANGED sweepVars

\* One iteration of: for line in output.split('\n')
ScanNextLine ==
    /\ pc = "scan"
    /\ LET st == ScanLine([actual_text |-> actual_text,
                           latency_ms |-> latency_ms,
                           raised |-> FALSE], output[line_no])
       IN /\ actual_text' = st.actual_text
          /\ latency_ms' = st.latency_ms
          /\ IF st.raised
             THEN pc' = "raised" /\ line_no' = line_no
             ELSE /\ line_no' = line_no + 1
                  /\ pc' = IF line_no = Len(output) THEN "scanned" ELSE "scan"
    /\ UNCHANGED <<result, output>>
    /\ UNCHANGED scorerVars
    /\ UNCHANGED sweepVars

NextScan == JoinOutput \/ ScanNextLine

SpecScan == InitScan /\ [][NextScan]_vars

(***************************************************************************)
(* The sweep: main() from the loaded mapping to the summary.               *)
(* The keys of the mapping are 1..Len(transcripts), in iteration order;    *)
(* audio_files is the set of keys whose audio file exists.                 *)
(***************************************************************************)
Notice(kind, file) ==
    [kind |-> kind, file |-> file, expected |-> << >>, actual |-> << >>,
     latency |-> 0, wer |-> Zero]

Report(file, expected, actual, latency, wer) ==
    [kind |-> "REPORT", file |-> file, expected |-> expected,
     actual |-> actual, latency |-> latency, wer |-> wer]

\* not os.path.exists(file_path)
ShouldSkip(file) == file \notin audio_files

RunRaisesOnExitCode(returncode) == returncode /= 0

\* subprocess.run(..., check=False) raises for no exit code.
RunRaises(returncode) == FALSE

AccumulateCountOnly(acc, latency, wer) ==
    [acc EXCEPT !.processed = acc.processed + 1]

AccumulateClamped(acc, latency, wer) ==
    [total_latency_ms |-> acc.total_latency_ms + latency,
     total_wer |-> IF wer.inf THEN acc.total_wer ELSE FAdd(acc.total_wer, wer),
     processed |-> acc.processed + 1]

\* total_latency_ms += latency_ms; total_wer += wer; processed += 1
Accumulate(acc, latency, wer) ==
    [total_latency_ms |-> acc.total_latency_ms + latency,
     total_wer |-> FAdd(acc.total_wer, wer),
     processed |-> acc.processed + 1]

HasProcessedAlways(n) == n >= 0

\* if processed > 0
HasProcessed(n) == n > 0

AfterFailedRetry(file) == file

\* continue: the loop goes on with the entry after the failed one.
AfterFailed(file) == file + 1

Init ==
    /\ transcripts \in SeqsUpTo(ExpectedTexts, MaxEntries)
    /\ audio_files \in SUBSET (1..Len(transcripts))
    /\ idx = 1
    /\ total_latency_ms = 0
    /\ total_wer = Zero
    /\ processed = 0
    /\ printed = << >>
    /\ summary = NoSummary
    /\ invocations = << >>
    /\ launched = {}
    /\ pc = "loop"
    /\ ScorerIdle
    /\ ScanIdle

\* The audio file of the next entry is missing: SKIPPED, continue.
Skip ==
    /\ pc = "loop"
    /\ idx <= Len(transcripts)
    /\ ShouldSkip(idx)
    /\ printed' = Append(printed, Notice("SKIPPED", idx))
    /\ idx' = idx + 1
    /\ UNCHANGED <<pc, result, output, line_no, actual_text, latency_ms,
                   transcripts, audio_files, total_latency_ms, total_wer,
                   processed, summary, invocations, launched>>
    /\ UNCHANGED scorerVars

\* subprocess.run is called for the next entry and blocks.
Launch ==
    /\ pc = "loop"
    /\ idx <= Len(transcripts)
    /\ ~ShouldSkip(idx)
    /\ invocations' = Append(invocations, idx)
    /\ pc' = "running"
    /\ UNCHANGED <<idx, result, output, line_no, actual_text, latency_ms,
                   transcripts, audio_files, total_latency_ms, total_wer,
                   processed, printed, summary, launched>>
    /\ UNCHANGED scorerVars

\* except Exception: FAILED, continue.
Failed ==
    /\ printed' = Append(printed, Notice("FAILED", idx))
    /\ idx' = AfterFailed(idx)
    /\ pc' = "loop"
    /\ UNCHANGED <<result, output, line_no, actual_text, latency_ms,
                   transcripts, audio_files, total_latency_ms, total_wer,
                   processed, summary, invocations>>
    /\ UNCHANGED scorerVars

\* subprocess.run raises: the transcriber could not be launched.
LaunchFailed ==
    /\ pc = "running"
    /\ Failed
    /\ UNCHANGED launched

\* The rest of the iteration once subprocess.run has returned res: the
\* output is joined and scanned, the WER computed, the report printed and
\* the accumulators updated; a ValueError of int() ends the program.
Handle(res) ==
    LET lines == CapturedOutput(res.stdout, res.stderr)
        st == ScanOutput(lines)
        wer == compute_wer(transcripts[idx], st.actual_text)
        acc == Accumulate([total_latency_ms |-> total_latency_ms,
                           total_wer |-> total_wer,
                           processed |-> processed], st.latency_ms, wer)
    IN /\ result' = res
       /\ output' = lines
       /\ line_no' = Len(lines)
       /\ actual_text' = st.actual_text
       /\ latency_ms' = st.latency_ms
       /\ IF st.raised
          THEN /\ pc' = "crashed"
               /\ UNCHANGED <<idx, total_latency_ms, total_wer, processed,
                              printed>>
          ELSE /\ printed' = Append(printed,
                     Report(idx, transcripts[idx], st.actual_text,
                            st.latency_ms, wer))
               /\ total_latency_ms' = acc.total_latency_ms
               /\ total_wer' = acc.total_wer
               /\ processed' = acc.processed
               /\ idx' = idx + 1
               /\ pc' = "loop"
       /\ UNCHANGED <<transcripts, audio_files, summary, invocations>>
       /\ UNCHANGED scorerVars

\* The transcriber was launched and has exited; launched records the
\* entries for which this happened.
Complete ==
    /\ pc = "running"
    /\ launched' = launched \cup {idx}
    /\ \E res \in SweepResults :
          IF RunRaises(res.returncode) THEN Failed ELSE Handle(res)

\* After the loop: the summary, or "No files processed."
Summarize ==
    /\ pc = "loop"
    /\ idx > Len(transcripts)
    /\ IF HasProcessed(processed)
       THEN IF processed = 0
            THEN /\ pc' = "crashed"
                 /\ summary' = [NoSummary EXCEPT !.kind = "ZeroDivisionError"]
            ELSE /\ pc' = "done"
                 /\ summary' = [kind |-> "SUMMARY",
                                files |-> processed,
                                avg_latency |-> Rat(total_latency_ms, processed),
                                avg_wer |-> FDiv(total_wer, processed)]
       ELSE /\ pc' = "done"
            /\ summary' = [NoSummary EXCEPT !.kind = "No files processed."]
    /\ UNCHANGED <<idx, result, output, line_no, actual_text, latency_ms,
                   transcripts, audio_files, total_latency_ms, total_wer,
                   processed, printed, invocations, launched>>
    /\ UNCHANGED scorerVars

Next == Skip \/ Launch \/ LaunchFailed \/ Complete \/ Summarize

Spec == Init /\ [][Next]_vars

(***************************************************************************)
(* Properties of the scorer (SpecWer).                                     *)
(***************************************************************************)
\* The alignments of m reference words with n hypothesis words: sets of
\* paired positions, order-preserving and one-to-one.  Paired words that
\* differ are substituted, unpaired reference words deleted, unpaired
\* hypothesis words inserted.
Alignments(m, n) ==
    {M \in SUBSET ((1..m) \X (1..n)) :
        \A p \in M : \A q \in M : (p[1] < q[1]) <=> (p[2] < q[2])}

AlignmentCost(rw, hw, M) ==
    (Len(rw) - Cardinality(M)) + (Len(hw) - Cardinality(M))
        + Cardinality({p \in M : rw[p[1]] /= hw[p[2]]})

\* The least number of insertions, deletions and substitutions of single
\* words that turn rw into hw.
MinEdits(rw, hw) ==
    LET costs == {AlignmentCost(rw, hw, M) : M \in Alignments(Len(rw), Len(hw))}
    IN CHOOSE c \in costs : \A e \in costs : c <= e

\* C1: compute_wer returns the least number of word insertions, deletions
\* and substitutions turning the normalized reference into the normalized
\* hypothesis, divided by the number of reference words; for a reference
\* without words it returns 0.0 if the hypothesis has none and +inf
\* otherwise.
C1_WerIsMinEditsOverRefLength ==
    pc = "returned" =>
        LET rw == normalize(reference)
            hw == normalize(hypothesis)
        IN wer_value =
              IF Len(rw) = 0
              THEN (IF Len(hw) = 0 THEN Zero ELSE Inf)
              ELSE Rat(MinEdits(rw, hw), Len(rw))

\* A reference of three words whose first word is deleted: WER 1/3, where
\* comparing the words position by position would give 3/3.
C1_Witness ==
    /\ pc = "returned"
    /\ reference = <<"a", " ", "B", " ", "a">>
    /\ hypothesis = <<"B", " ", "a">>
    /\ ref_words = <<<<"a">>, <<"b">>, <<"a">>>>
    /\ hyp_words = <<<<"b">>, <<"a">>>>
    /\ errors = 1
    /\ wer_value = Rat(1, 3)

\* The text as the claim normalizes it: lowercased, and every character
\* that is neither a letter, a digit nor whitespace deleted.
AlnumOrSpaceOnly(text) ==
    SelectSeq(Lower(text), LAMBDA c : c \in Letters \cup Digits \cup Whitespace)

\* C7: the normalizer returns the words of the lowercased text from which
\* every character that is neither a letter, a digit nor whitespace is
\* deleted (the underscore too); two texts that differ only in case and in
\* deleted characters have WER 0.0 against each other.
C7_NormalizerKeepsOnlyAlnum ==
    pc = "returned" =>
        /\ ref_words = Split(AlnumOrSpaceOnly(reference))
        /\ hyp_words = Split(AlnumOrSpaceOnly(hypothesis))
        /\ (AlnumOrSpaceOnly(reference) = AlnumOrSpaceOnly(hypothesis)
                => wer_value = Zero)

(***************************************************************************)
(* Properties of the scan (SpecScan).                                      *)
(***************************************************************************)
\* C4: a line that begins with BENCHMARK_RESULT: sets the hypothesis to
\* exactly the text after that leading marker, trimmed, also when the text
\* contains the marker again; a line that begins with BENCHMARK_LATENCY_MS:
\* sets the latency to the integer written after the leading marker; any
\* other line changes neither.
C4_MarkerLineYieldsTextAfterLeadingMarker ==
    [][pc = "scan" =>
        LET line == output[line_no] IN
        /\ StartsWith(line, RESULT_MARKER) =>
              /\ actual_text' = Strip(Tail(line))
              /\ latency_ms' = latency_ms
        /\ (StartsWith(line, LATENCY_MARKER) /\ ~int(Tail(line)).raised) =>
              /\ latency_ms' = int(Tail(line)).value
              /\ actual_text' = actual_text
        /\ (~StartsWith(line, RESULT_MARKER) /\ ~StartsWith(line, LATENCY_MARKER)) =>
              /\ actual_text' = actual_text
              /\ latency_ms' = latency_ms
    ]_vars

LastOf(S) == CHOOSE k \in S : \A j \in S : j <= k

\* C10: after the scan the hypothesis is the value of the last line that
\* begins with BENCHMARK_RESULT:, and the latency the value of the last
\* line that begins with BENCHMARK_LATENCY_MS:, where the lines of stdout
\* come before those of stderr.
C10_LastMarkerLineWinsStdoutFirst ==
    pc = "scanned" =>
        LET all == result.stdout \o result.stderr
            rs == {k \in 1..Len(all) : StartsWith(all[k], RESULT_MARKER)}
            ls == {k \in 1..Len(all) : StartsWith(all[k], LATENCY_MARKER)}
        IN /\ actual_text =
                 IF rs = {} THEN << >>
                 ELSE ScanLine(ScanStart, all[LastOf(rs)]).actual_text
           /\ latency_ms =
                 IF ls = {} THEN 0
                 ELSE ScanLine(ScanStart, all[LastOf(ls)]).latency_ms

\* stdout gives a hypothesis and a latency, stderr another hypothesis: the
\* hypothesis is that of stderr, the latency that of stdout.
C10_Witness ==
    /\ pc = "scanned"
    /\ result.stdout = <<ResultLine, LatencyLine>>
    /\ result.stderr = <<ResultLineB>>
    /\ actual_text = <<"B">>
    /\ latency_ms = 1

(***************************************************************************)
(* Properties of the sweep (Spec).                                         *)
(***************************************************************************)
\* The positions in printed of the notices and reports about an entry.
OutcomesOf(file) == {k \in 1..Len(printed) : printed[k].file = file}

Reports == {k \in 1..Len(printed) : printed[k].kind = "REPORT"}

RECURSIVE SumLatency(_)
SumLatency(S) ==
    IF S = {} THEN 0
    ELSE LET k == CHOOSE j \in S : TRUE
         IN printed[k].latency + SumLatency(S \ {k})

RECURSIVE SumWer(_)
SumWer(S) ==
    IF S = {} THEN Zero
    ELSE LET k == CHOOSE j \in S : TRUE
         IN FAdd(printed[k].wer, SumWer(S \ {k}))

\* C2: whatever the files, launch outcomes, exit codes and outputs, the
\* sweep is never aborted by an entry, and when it is over every entry has
\* ended in exactly one of processed, skipped and failed.
C2_NoEntryAbortsTheSweep ==
    /\ pc /= "crashed"
    /\ pc = "done" =>
          \A file \in 1..Len(transcripts) : Cardinality(OutcomesOf(file)) = 1

\* C3: the processed count is the number of entries handled so far whose
\* audio file exists and whose transcriber was launched, the reports are
\* those of exactly these entries, and the latency sum and the WER sum are
\* the sums over these reports; skipped and failed entries add nothing.
C3_AccumulatorsCoverExactlyTheProcessedEntries ==
    LET counted == {file \in 1..(idx - 1) :
                        file \in audio_files /\ file \in launched}
    IN /\ processed = Cardinality(counted)
       /\ {printed[k].file : k \in Reports} = counted
       /\ Cardinality(Reports) = Cardinality(counted)
       /\ \A k \in Reports :
             printed[k].wer =
                 compute_wer(transcripts[printed[k].file], printed[k].actual)
       /\ total_latency_ms = SumLatency(Reports)
       /\ total_wer = SumWer(Reports)

\* One entry processed with a latency, the other skipped: the summary is
\* about one file.
C3_Witness ==
    /\ pc = "done"
    /\ Len(transcripts) = 2
    /\ audio_files = {2}
    /\ processed = 1
    /\ total_latency_ms = 1
    /\ printed[1].kind = "SKIPPED"
    /\ summary.files = 1

HasMarkerLine(lines) ==
    \E k \in 1..Len(lines) :
        StartsWith(lines[k], RESULT_MARKER) \/ StartsWith(lines[k], LATENCY_MARKER)

\* C5: when the transcriber was launched and its output has no marker line,
\* whatever the exit code, the entry is processed: empty hypothesis,
\* latency 0, count one more, latency sum unchanged, and the WER of the
\* expected text against the empty hypothesis added (1.0 if the expected
\* text has a word).
C5_OutputWithoutMarkersIsProcessed ==
    [][(pc = "running" /\ idx \in launched' /\ ~HasMarkerLine(output')) =>
        /\ pc' = "loop"
        /\ idx' = idx + 1
        /\ actual_text' = << >>
        /\ latency_ms' = 0
        /\ processed' = processed + 1
        /\ total_latency_ms' = total_latency_ms
        /\ total_wer' = FAdd(total_wer, compute_wer(transcripts[idx], << >>))
        /\ printed' = Append(printed,
               Report(idx, transcripts[idx], << >>, 0,
                      IF normalize(transcripts[idx]) /= << >>
                      THEN Rat(1, 1) ELSE Zero))
    ]_vars

\* An entry with expected words, an exit code 1 and no marker line: it is
\* reported with WER 1.0.
C5_Witness ==
    /\ pc = "loop"
    /\ idx = 2
    /\ result.returncode = 1
    /\ result.stdout = <<EmptyLine>>
    /\ result.stderr = <<OtherLine>>
    /\ printed = <<Report(1, <<"a", " ", "B">>, << >>, 0, Rat(1, 1))>>
    /\ processed = 1
    /\ total_wer = Rat(1, 1)

\* C6: nothing is summarized before the loop is over; then the summary
\* (count, latency sum / count, WER sum / count) is printed exactly when the
\* processed count is greater than 0 and "No files processed." exactly when
\* it is 0; no division by a count of 0 happens.
C6_SummaryExactlyWhenProcessed ==
    /\ summary.kind /= "ZeroDivisionError"
    /\ pc \in {"loop", "running"} => summary = NoSummary
    /\ pc = "done" =>
          /\ summary.kind = "SUMMARY" <=> processed > 0
          /\ summary.kind = "No files processed." <=> processed = 0
          /\ processed > 0 =>
                /\ summary.files = processed
                /\ summary.avg_latency = Rat(total_latency_ms, processed)
                /\ summary.avg_wer = FDiv(total_wer, processed)

\* A mapping of two entries, one skipped and one failed: no summary.
C6_Witness ==
    /\ pc = "done"
    /\ Len(printed) = 2
    /\ printed[1].kind = "SKIPPED"
    /\ printed[2].kind = "FAILED"
    /\ processed = 0
    /\ summary.kind = "No files processed."

\* C8: once an entry without expected words and with a hypothesis of at
\* least one word is processed, the WER sum is infinite, and so is the
\* average WER of the summary.
C8_InfiniteWerPropagates ==
    (\E k \in Reports :
        /\ normalize(printed[k].expected) = << >>
        /\ normalize(printed[k].actual) /= << >>)
    => /\ total_wer = Inf
       /\ pc = "done" => (summary.kind = "SUMMARY" /\ summary.avg_wer = Inf)

\* An infinite WER followed by a finite one: the average is infinite.
C8_Witness ==
    /\ pc = "done"
    /\ Len(printed) = 2
    /\ printed[1].kind = "REPORT"
    /\ printed[1].wer = Inf
    /\ printed[2].kind = "REPORT"
    /\ printed[2].wer = Rat(1, 2)
    /\ summary.avg_wer = Inf

\* The entries whose invocation has neither returned nor failed.
InFlight ==
    {invocations[k] : k \in 1..Len(invocations)}
        \ (launched \cup {printed[k].file : k \in 1..Len(printed)})

\* C9: the transcriber is invoked at most once per entry, in mapping order,
\* never for an entry without audio file; at most one invocation is in
\* flight, that of the current entry, and then every earlier entry is fully
\* handled.
C9_OneInvocationPerEntryInOrder ==
    /\ \A j \in 1..Len(invocations) : \A k \in 1..Len(invocations) :
          j < k => invocations[j] < invocations[k]
    /\ \A k \in 1..Len(invocations) : invocations[k] \in audio_files
    /\ Cardinality(InFlight) <= 1
    /\ pc = "running" <=> InFlight /= {}
    /\ InFlight /= {} =>
          /\ InFlight = {idx}
          /\ \A file \in 1..(idx - 1) : Cardinality(OutcomesOf(file)) = 1

\* The second entry is running after the launch for the first one failed.
C9_Witness ==
    /\ pc = "running"
    /\ invocations = <<1, 2>>
    /\ printed = <<Notice("FAILED", 1)>>

====
